---------------------------- MODULE Spec2Model ----------------------------
(***************************************************************************)
(* CTRWfractal: site percolation on a periodic square or honeycomb lattice *)
(* (Newman-Ziff union-find), continuous-time random walks on the occupied  *)
(* sites, and the mean-squared-displacement analysis of the trajectories.  *)
(*                                                                         *)
(* The model follows the refined engine (template CTRWfractal<T1, T2>,     *)
(* driven by CTRWwrapper).  A loop that draws from the generator or writes *)
(* an array is one action per iteration, except the search for a start     *)
(* site, whose up to countMax rejections are one action; the loops that    *)
(* only compute (subordination, conversion to coordinates, the sums of the *)
(* analysis) are operators.  pc names the statement the run is about to    *)
(* execute.                                                                *)
(*                                                                         *)
(* Reals are modelled exactly where the engine's values are rational:      *)
(*   threshold = threshold / ThresholdDen,  tau0 = tau0 / 4,               *)
(*   CTRW times are counted in quarters, and the analysis matrices hold    *)
(*   ratios [n, d] with d = 0 standing for the IEEE non-finite values      *)
(*   (n = 0: NaN, n # 0: +-Inf).                                           *)
(***************************************************************************)
EXTENDS Integers, Sequences, FiniteSets, TLC

(***************************************************************************)
(* Bounds of the model.                                                    *)
(***************************************************************************)
\* largest gridSize of the topology runs
MaxGridSize == 4
\* thresholds are ThresholdNum / ThresholdDen
ThresholdDen == 8
\* largest threshold numerator (thresholds above 1 included)
MaxThresholdNum == 13
\* user seeds 0 .. MaxSeed
MaxSeed == 3
\* an uninitialised uint32_t member reads as any of 0 .. MaxGarbage
MaxGarbage == 2
\* lattices of at most this many sites are run on every draw sequence
MaxEntropySites == 4
\* largest gridSize of the percolation runs
MaxPercGrid == 3
\* the generator's draws for the shuffle are DrawBits wide
DrawBits == 5

\* the largest whole factor of tau0 a waiting time takes
MaxWait == 2

\* the largest number of workers
MaxJobs == 2

\* the start search, a sample at a time: grid sizes 2 .. MaxSearchGrid, seeds
\* 0 .. MaxSearchSeed
MaxSearchGrid == 2
MaxSearchSeed == 1

\* the gridSize of the lattice on which every occupation order is explored
FallbackGrid == 3

\* largest gridSize, number of walkers and number of ticks of the walks
MaxWalkGrid == 3

MaxWalks == 2

MaxWalkLength == 3

(***************************************************************************)
(* Integer helpers.                                                        *)
(***************************************************************************)
Abs(x) == IF x < 0 THEN -x ELSE x

Min2(a, b) == IF a < b THEN a ELSE b

Max2(a, b) == IF a > b THEN a ELSE b

RECURSIVE Pow(_, _)
Pow(b, e) == IF e = 0 THEN 1 ELSE b * Pow(b, e - 1)

RECURSIVE GCD(_, _)
GCD(a, b) == IF b = 0 THEN a ELSE GCD(b, a % b)

\* ceil(a / b) for b > 0
CeilDiv(a, b) == -((-a) \div b)

Range(s) == {s[k] : k \in 1..Len(s)}

RECURSIVE SeqSum(_)
SeqSum(s) == IF s = <<>> THEN 0 ELSE Head(s) + SeqSum(Tail(s))

\* the elements of a set of integers in increasing order (arma::find order)
RECURSIVE SortedSeq(_)
SortedSeq(S) ==
  IF S = {} THEN <<>>
  ELSE LET m == CHOOSE x \in S : \A y \in S : x <= y
       IN <<m>> \o SortedSeq(S \ {m})

(***************************************************************************)
(* State.                                                                  *)
(***************************************************************************)
VARIABLES
  \* constructor arguments
  gridSize, nWalks, walkLength, threshold, beta, tau0, noise,
  latticeMode, walkMode, nJobs,
  \* CTRWwrapper's randomSeed and the number of the run it is making
  randomSeed, runNo, prev,
  \* private members
  N, simLength, EMPTY, neighbourCount,
  lattice, occupation, walks, trueWalks, firstRow, lastRow, nn,
  unitCell, ctrwTimes, eaMSDall, eataMSDall, taMSD,
  RNG,
  \* exported members
  latticeCoords, analysis, walksCoords,
  \* control: the statement reached, the locals of the function running,
  \* and how the run ended
  pc, loc, outcome

cfgVars == <<gridSize, nWalks, walkLength, threshold, beta, tau0, noise,
             latticeMode, walkMode, nJobs, randomSeed, simLength>>

topoVars == <<N, EMPTY, neighbourCount, firstRow, lastRow, nn>>

percVars == <<lattice, occupation>>

walkVars == <<walks, trueWalks, ctrwTimes, walksCoords>>

msdVars == <<eaMSDall, eataMSDall, taMSD, analysis>>

vars == <<cfgVars, runNo, prev, topoVars, percVars, walkVars, msdVars,
          unitCell, latticeCoords, RNG, pc, loc, outcome>>

(***************************************************************************)
(* The generator.  pcg64 is outside the repository: it is modelled as a    *)
(* full-period multiplicative congruential generator modulo the prime      *)
(* 32749.  A generator seeded from std::random_device is the value         *)
(* Entropy, and each of its draws is any value of the distribution's       *)
(* range.                                                                  *)
(***************************************************************************)
Entropy == -1

RngStep(s) == (s * 219) % 32749

\* pcg64(seed)
RngSeeded(seed) == RngStep(1 + ((seed * 7919 + 17) % 32748))

\* SeedRNG as it stood before the refinement: seed 0 also meant "no seed"
SeedRNGPositiveOnly(seed) == IF seed > 0 THEN RngSeeded(seed) ELSE Entropy

SeedRNG(seed) == IF seed < 0 THEN Entropy ELSE RngSeeded(seed)

\* the values one draw of a distribution over 0 .. n-1 can return
Draws(n) == IF RNG = Entropy THEN 0..(n - 1) ELSE {RNG % n}

\* the generator after one draw
Drawn == IF RNG = Entropy THEN Entropy ELSE RngStep(RNG)

(***************************************************************************)
(* Construction.                                                           *)
(***************************************************************************)
\* an array of n elements (0-based) the code has not written yet
Blank(n) == [k \in 0..(n - 1) |-> 0]

\* simLength = (tau0 < 1.) ? static_cast<uint32_t>(walkLength / tau0) : walkLength
SimLengthOf(wl, t0) == IF t0 < 4 THEN (wl * 4) \div t0 ELSE wl

\* CTRWfractal(gridSize, nWalks, walkLength, threshold, beta, tau0, noise,
\*             latticeMode, walkMode, nJobs), called by CTRWwrapper with
\* randomSeed; c is the record of the arguments
Construct(c) ==
  /\ gridSize = c.gridSize
  /\ nWalks = c.nWalks
  /\ walkLength = c.walkLength
  /\ threshold = c.threshold
  /\ beta = c.beta
  /\ tau0 = c.tau0
  /\ noise = c.noise
  /\ latticeMode = c.latticeMode
  /\ walkMode = c.walkMode
  /\ nJobs = c.nJobs
  /\ randomSeed = c.randomSeed
  /\ simLength = SimLengthOf(c.walkLength, c.tau0)
  /\ walks = Blank(SimLengthOf(c.walkLength, c.tau0))
  /\ ctrwTimes = Blank(SimLengthOf(c.walkLength, c.tau0))
  /\ trueWalks = Blank(c.walkLength)
  /\ eaMSDall = [w \in 0..(c.nWalks - 1) |-> Blank(c.walkLength - 1)]
  /\ taMSD = [w \in 0..(c.nWalks - 1) |-> Blank(c.walkLength - 1)]
  /\ eataMSDall = [w \in 0..(c.nWalks - 1) |-> Blank(c.walkLength - 1)]
  \* members the constructor leaves empty or indeterminate
  /\ N = 0
  /\ EMPTY = 0
  /\ neighbourCount = 0
  /\ nn = Blank(0)
  /\ firstRow = Blank(0)
  /\ lastRow = Blank(0)
  /\ lattice = Blank(0)
  /\ occupation = Blank(0)
  /\ unitCell = Blank(0)
  /\ latticeCoords = Blank(0)
  /\ analysis = Blank(0)
  /\ walksCoords = Blank(0)
  /\ RNG = Entropy
  /\ pc = "Initialize"
  /\ loc = [i |-> 0]
  /\ outcome = "running"

(***************************************************************************)
(* Initialize: the neighbour table.  The index arithmetic is done in       *)
(* size_t and stored as T1 = int32_t; a difference that is negative wraps  *)
(* in size_t and wraps back on the conversion, so the stored value is the  *)
(* mathematical one for every lattice the model can hold.                  *)
(***************************************************************************)
\* firstRow(i - 1), i = 1 .. 2 * gridSize
FirstRowAt(i) ==
  ((2 - 3 * gridSize + Pow(-1, i) * gridSize + 4 * i * gridSize - 2) \div 2)

\* lastRow(i - 1), i = 1 .. 2 * gridSize
LastRowAt(i) ==
  ((gridSize * (4 * i + Pow(-1, i + 1) - 1)) \div 2 - 1)

\* arma::any(row == x)
AnyEq(row, x) == \E k \in DOMAIN row : row[k] = x

\* one iteration of BoundariesSquare without the correction of nn(1, i)
\* on the first row
BoundariesSquareHalfWrap(i) ==
  << IF (i + 1) % gridSize = 0 THEN i - gridSize + 1 ELSE (i + 1) % N,
     (i + N - 1) % N,
     (i + gridSize) % N,
     (i + N - gridSize) % N >>

\* column i of nn as one iteration of BoundariesSquare writes it
BoundariesSquareCol(i) ==
  << IF (i + 1) % gridSize = 0 THEN (i - gridSize + 1)
                               ELSE ((i + 1) % N),
     IF i % gridSize = 0 THEN (i + gridSize - 1)
                         ELSE ((i + N - 1) % N),
     ((i + gridSize) % N),
     ((i + N - gridSize) % N) >>

\* column i of nn as one iteration of BoundariesHoneycomb writes it
BoundariesHoneycombCol(i, currentCol) ==
  LET g == gridSize
      col(a, b, c) == <<(a), (b), (c)>>
  IN
  IF i = 0 THEN col(i + g, i + 2 * g - 1, i + N - g)
  ELSE IF i = N - g THEN col(i - 1, i - g, i - N + g)
  ELSE IF i = N - g - 1 THEN col(i - g, i + g, i + 1)
  ELSE IF i < g THEN col(i + g - 1, i + g, i + N - g)
  ELSE IF i > N - g THEN col(i - g - 1, i - g, i - N + g)
  ELSE CASE currentCol = 0 ->
              IF AnyEq(firstRow, i) THEN col(i - g, i + g, i + 2 * g - 1)
                                  ELSE col(i - g, i + g - 1, i + g)
         [] currentCol = 1 ->
              IF AnyEq(lastRow, i) THEN col(i - g, i + g, i - 2 * g + 1)
                                 ELSE col(i - g, i - g + 1, i + g)
         [] currentCol = 2 ->
              IF AnyEq(lastRow, i) THEN col(i - g, i + g, i + 1)
                                 ELSE col(i - g, i + g, i + g + 1)
         [] currentCol = 3 ->
              IF AnyEq(firstRow, i) THEN col(i - 1, i - g, i + g)
                                  ELSE col(i - g - 1, i - g, i + g)

\* Initialize up to the call of the Boundaries function
InitializeBegin ==
  /\ pc = "Initialize"
  /\ RNG' = SeedRNG(randomSeed)
  /\ IF latticeMode = 1 THEN
       /\ neighbourCount' = 3
       /\ N' = gridSize * gridSize * 4
       /\ nn' = [s \in 0..(gridSize * gridSize * 4 - 1) |-> <<>>]
       /\ firstRow' = [k \in 0..(2 * gridSize - 1) |-> FirstRowAt(k + 1)]
       /\ lastRow' = [k \in 0..(2 * gridSize - 1) |-> LastRowAt(k + 1)]
       /\ pc' = "BoundariesHoneycomb"
       /\ loc' = [i |-> 0, currentCol |-> 0, count |-> 0]
     ELSE IF latticeMode = 0 THEN
       /\ neighbourCount' = 4
       /\ N' = gridSize * gridSize
       /\ nn' = [s \in 0..(gridSize * gridSize - 1) |-> <<>>]
       /\ pc' = "BoundariesSquare"
       /\ loc' = [i |-> 0]
       /\ UNCHANGED <<firstRow, lastRow>>
     ELSE
       \* neither branch is taken and nothing is reported
       /\ pc' = "InitializeSizes"
       /\ UNCHANGED <<N, neighbourCount, nn, firstRow, lastRow, loc>>
  /\ UNCHANGED <<cfgVars, runNo, prev, EMPTY, percVars, walkVars, msdVars,
                 unitCell, latticeCoords, outcome>>

BoundariesSquare ==
  /\ pc = "BoundariesSquare"
  /\ IF loc.i < N THEN
       /\ nn' = [nn EXCEPT ![loc.i] = BoundariesSquareCol(loc.i)]
       /\ loc' = [loc EXCEPT !.i = loc.i + 1]
       /\ pc' = pc
     ELSE
       /\ pc' = "InitializeSizes"
       /\ UNCHANGED <<nn, loc>>
  /\ UNCHANGED <<cfgVars, runNo, prev, N, EMPTY, neighbourCount, firstRow,
                 lastRow, percVars, walkVars, msdVars, unitCell,
                 latticeCoords, RNG, outcome>>

BoundariesHoneycomb ==
  /\ pc = "BoundariesHoneycomb"
  /\ IF loc.i < N THEN
       /\ nn' = [nn EXCEPT ![loc.i] =
                   BoundariesHoneycombCol(loc.i, loc.currentCol)]
       /\ loc' = IF (loc.i + 1) % gridSize = 0
                 THEN [i |-> loc.i + 1, count |-> loc.count + 1,
                       currentCol |-> (loc.count + 1) % 4]
                 ELSE [loc EXCEPT !.i = loc.i + 1]
       /\ pc' = pc
     ELSE
       /\ pc' = "InitializeSizes"
       /\ UNCHANGED <<nn, loc>>
  /\ UNCHANGED <<cfgVars, runNo, prev, N, EMPTY, neighbourCount, firstRow,
                 lastRow, percVars, walkVars, msdVars, unitCell,
                 latticeCoords, RNG, outcome>>

\* the rest of Initialize: EMPTY and the sizes of the arrays.  With a
\* lattice mode other than 0 and 1, N is read without ever having been set.
InitializeSizes ==
  /\ pc = "InitializeSizes"
  /\ \E n \in (IF latticeMode \in {0, 1} THEN {N} ELSE 0..MaxGarbage) :
       /\ N' = n
       /\ EMPTY' = -n - 1
       /\ lattice' = Blank(n)
       /\ occupation' = Blank(n)
       /\ latticeCoords' = [s \in 0..(n - 1) |-> <<0, 0, 0>>]
  /\ analysis' = [r \in 0..(walkLength - 2) |-> Blank(nWalks + 3)]
  /\ walksCoords' = [w \in 0..(nWalks - 1) |->
                       [t \in 0..(walkLength - 1) |-> <<0, 0>>]]
  /\ pc' = "Permutation"
  /\ loc' = [i |-> 0]
  /\ UNCHANGED <<cfgVars, runNo, prev, neighbourCount, firstRow, lastRow, nn,
                 walks, trueWalks, ctrwTimes, eaMSDall, eataMSDall, taMSD,
                 unitCell, RNG, outcome>>

(***************************************************************************)
(* Run: Permutation.  UniformDistribution draws a 32-bit value in          *)
(* [0, 2^32 - 2] and permConstant is 2^-32 rounded down; the model keeps   *)
(* the same relation at DrawBits bits.                                     *)
(***************************************************************************)
\* UniformDistribution{0, 4294967294}: the number of values it can return
UniformCount == Pow(2, DrawBits) - 1

\* the swap index taken over the whole array instead of the tail
SwapIndexWholeArray(i, u) == (N * u) \div Pow(2, DrawBits)

\* j = i + (N - i) * permConstant * u, truncated to T1
SwapIndex(i, u) == i + ((N - i) * u) \div Pow(2, DrawBits)

\* the first loop of Permutation
Permutation ==
  /\ pc = "Permutation"
  /\ occupation' = [k \in 0..(N - 1) |-> k]
  /\ pc' = "PermutationSwap"
  /\ loc' = [i |-> 0]
  /\ UNCHANGED <<cfgVars, runNo, prev, topoVars, lattice, walkVars, msdVars,
                 unitCell, latticeCoords, RNG, outcome>>

\* one iteration of the second loop of Permutation
PermutationSwap ==
  /\ pc = "PermutationSwap"
  /\ IF loc.i < N THEN
       /\ \E j \in {SwapIndex(loc.i, u) : u \in Draws(UniformCount)} :
            occupation' = [occupation EXCEPT ![loc.i] = occupation[j],
                                             ![j] = occupation[loc.i]]
       /\ RNG' = Drawn
       /\ loc' = [i |-> loc.i + 1]
       /\ pc' = pc
     ELSE
       /\ pc' = "Percolate"
       /\ UNCHANGED <<occupation, RNG, loc>>
  /\ UNCHANGED <<cfgVars, runNo, prev, topoVars, lattice, walkVars, msdVars,
                 unitCell, latticeCoords, outcome>>

(***************************************************************************)
(* Run: Percolate.                                                         *)
(***************************************************************************)
\* FindRoot(i): the root of i's tree and the lattice after path compression
RECURSIVE FindRoot(_, _)
FindRoot(lat, i) ==
  IF lat[i] < 0 THEN [root |-> i, lat |-> lat]
  ELSE LET up == FindRoot(lat, lat[i])
       IN [root |-> up.root, lat |-> [up.lat EXCEPT ![i] = up.root]]

\* the union with the sizes left as they were
UnionNoSizeSum(lat, r1, r2) ==
  IF lat[r1] > lat[r2]
  THEN [lat |-> [lat EXCEPT ![r1] = r2], r1 |-> r2]
  ELSE [lat |-> [lat EXCEPT ![r2] = r1], r1 |-> r1]

\* the union that forgets that the new site's root has changed
UnionStaleRoot(lat, r1, r2) ==
  IF lat[r1] > lat[r2]
  THEN [lat |-> [lat EXCEPT ![r2] = lat[r2] + lat[r1], ![r1] = r2],
        r1 |-> r1]
  ELSE [lat |-> [lat EXCEPT ![r1] = lat[r1] + lat[r2], ![r2] = r1],
        r1 |-> r1]

\* the union that puts the first root under the second on equal sizes too
UnionTieToSecond(lat, r1, r2) ==
  IF lat[r1] >= lat[r2]
  THEN [lat |-> [lat EXCEPT ![r2] = lat[r2] + lat[r1], ![r1] = r2],
        r1 |-> r2]
  ELSE [lat |-> [lat EXCEPT ![r1] = lat[r1] + lat[r2], ![r2] = r1],
        r1 |-> r1]

\* the union of the clusters rooted at r1 and r2 (r1 # r2): the lattice and
\* the root the new site now belongs to
Union(lat, r1, r2) ==
  IF lat[r1] > lat[r2]
  THEN [lat |-> [lat EXCEPT ![r2] = lat[r2] + lat[r1], ![r1] = r2],
        r1 |-> r2]
  ELSE [lat |-> [lat EXCEPT ![r1] = lat[r1] + lat[r2], ![r2] = r1],
        r1 |-> r1]

\* the body of the loop over the neighbours of s1, from neighbour j on;
\* st = [lat, r1, big]
RECURSIVE Neighbours(_, _, _)
Neighbours(st, s1, j) ==
  IF j >= neighbourCount THEN st
  ELSE
    LET s2 == nn[s1][j + 1] IN
    IF st.lat[s2] # EMPTY THEN
      LET found == FindRoot(st.lat, s2) IN
      IF found.root # st.r1 THEN
        LET u == Union(found.lat, st.r1, found.root)
            size == -u.lat[u.r1]
        IN Neighbours([lat |-> u.lat, r1 |-> u.r1,
                       big |-> IF size > st.big THEN size ELSE st.big],
                      s1, j + 1)
      ELSE Neighbours([st EXCEPT !.lat = found.lat], s1, j + 1)
    ELSE Neighbours(st, s1, j + 1)

\* one iteration of the outer loop of Percolate with s1 = occupation[i]
Occupy(s1) ==
  Neighbours([lat |-> [lattice EXCEPT ![s1] = -1], r1 |-> s1,
              big |-> loc.big], s1, 0)

\* the loop condition with the bound off by one
PercolateContinuesInclusive(i) ==
  ThresholdDen * i <= threshold * N - ThresholdDen

\* the loop condition i < (threshold * N) - 1, in exact arithmetic
PercolateContinues(i) ==
  ThresholdDen * i < threshold * N - ThresholdDen

\* the first loop of Percolate
Percolate ==
  /\ pc = "Percolate"
  /\ lattice' = [s \in 0..(N - 1) |-> EMPTY]
  /\ pc' = "PercolateSite"
  /\ loc' = [i |-> 0, big |-> 0]
  /\ UNCHANGED <<cfgVars, runNo, prev, topoVars, occupation, walkVars,
                 msdVars, unitCell, latticeCoords, RNG, outcome>>

\* one iteration of the second loop of Percolate, or its exit
PercolateSite ==
  /\ pc = "PercolateSite"
  /\ IF PercolateContinues(loc.i) THEN
       /\ loc.i < N
       /\ LET done == Occupy(occupation[loc.i]) IN
            /\ lattice' = done.lat
            /\ loc' = [i |-> loc.i + 1, big |-> done.big]
       /\ pc' = pc
     ELSE
       /\ pc' = "BuildLattice"
       /\ loc' = [i |-> 0, j |-> 0, count |-> 0]
       /\ UNCHANGED lattice
  /\ UNCHANGED <<cfgVars, runNo, prev, topoVars, occupation, walkVars,
                 msdVars, unitCell, latticeCoords, RNG, outcome>>

\* an iteration of the second loop with i >= N: occupation[i] is not
\* bounds-checked and reads past the array, so s1 is whatever lies there
\* (-1 and N stand for the values that are no site); lattice(s1) with such
\* an s1 is out of range in turn and ends the run
PercolateOverrun ==
  /\ pc = "PercolateSite"
  /\ PercolateContinues(loc.i)
  /\ loc.i >= N
  /\ \E s1 \in (-1)..N :
       IF s1 \in 0..(N - 1) THEN
         /\ LET done == Occupy(s1) IN
              /\ lattice' = done.lat
              /\ loc' = [i |-> loc.i + 1, big |-> done.big]
         /\ pc' = pc
         /\ outcome' = "read out of range"
       ELSE
         /\ pc' = "Aborted"
         /\ outcome' = "index out of range"
         /\ UNCHANGED <<lattice, loc>>
  /\ UNCHANGED <<cfgVars, runNo, prev, topoVars, occupation, walkVars,
                 msdVars, unitCell, latticeCoords, RNG>>

(***************************************************************************)
(* Reading the lattice array.                                              *)
(***************************************************************************)
\* the sites whose lattice entry is not EMPTY
Occupied == {s \in DOMAIN lattice : lattice[s] # EMPTY}

IsRoot(s) == lattice[s] < 0 /\ lattice[s] # EMPTY

\* the root the parent chain of s ends at within fuel hops, or -1 when the
\* chain leaves the occupied sites or does not end
RECURSIVE RootWithin(_, _)
RootWithin(s, fuel) ==
  IF s \notin DOMAIN lattice \/ lattice[s] = EMPTY THEN -1
  ELSE IF lattice[s] < 0 THEN s
  ELSE IF fuel = 0 THEN -1
  ELSE RootWithin(lattice[s], fuel - 1)

RootOf(s) == RootWithin(s, N)

(***************************************************************************)
(* Run: BuildLattice.  A honeycomb site's coordinates are kept as the      *)
(* multiples the code forms: x in quarters, y in halves of sqrt3.          *)
(***************************************************************************)
\* the tag of a site: (lattice(count) == EMPTY) ? 0 : lattice(count)
SiteTag(s) == IF lattice[s] = EMPTY THEN 0 ELSE lattice[s]

\* xx and yy of the switch on currentCol = i % 4, for row j
HoneycombXY(i, j) ==
  CASE i % 4 = 1 -> <<3 * i + 2, 2 * j>>
    [] i % 4 = 2 -> <<3 * i + 6, 2 * j>>
    [] i % 4 = 3 -> <<3 * i + 8, 2 * j + 1>>
    [] OTHER -> <<3 * i, 2 * j + 1>>

\* arma::max(latticeCoords, 1): the largest entry of each row
RowMax(r) ==
  CHOOSE m \in {latticeCoords[s][r] : s \in DOMAIN latticeCoords} :
    \A s \in DOMAIN latticeCoords : latticeCoords[s][r] <= m

\* one iteration of the inner loop of the honeycomb branch.  j is a size_t
\* counting down while j >= 0, which never fails: a j below 0 stands for
\* the wrapped value 2^64 + j.  The loop therefore stays in column i = 0
\* until count leaves the lattice, where lattice(count) is out of range.
BuildLatticeHoneycomb ==
  /\ pc = "BuildLattice"
  /\ latticeMode = 1
  /\ IF loc.count < N THEN
       /\ latticeCoords' =
            [latticeCoords EXCEPT ![loc.count] =
               HoneycombXY(loc.i, loc.j) \o <<SiteTag(loc.count)>>]
       /\ loc' = [loc EXCEPT !.count = loc.count + 1, !.j = loc.j - 1]
       /\ UNCHANGED <<pc, outcome>>
     ELSE
       /\ pc' = "Aborted"
       /\ outcome' = "index out of range"
       /\ UNCHANGED <<latticeCoords, loc>>
  /\ UNCHANGED <<cfgVars, runNo, prev, topoVars, percVars, walkVars, msdVars,
                 unitCell, RNG>>

\* Run going on to the walks whatever nWalks is
AfterBuildLatticeUnguarded == "RandomWalks"

\* Run after BuildLattice: if (nWalks > 0) the walks and their analysis,
\* else the return
AfterBuildLattice == IF nWalks > 0 THEN "RandomWalks" ELSE "Returned"

\* one iteration of the inner loop of the square branch, or the end of the
\* loops: the unit cell, and the return to Run
BuildLatticeSquare ==
  /\ pc = "BuildLattice"
  /\ latticeMode = 0
  /\ IF loc.i < gridSize THEN
       /\ latticeCoords' =
            [latticeCoords EXCEPT ![loc.count] =
               <<loc.i, loc.j, SiteTag(loc.count)>>]
       /\ loc' = IF loc.j + 1 < gridSize
                 THEN [loc EXCEPT !.j = loc.j + 1, !.count = loc.count + 1]
                 ELSE [i |-> loc.i + 1, j |-> 0, count |-> loc.count + 1]
       /\ UNCHANGED <<pc, unitCell>>
     ELSE
       /\ unitCell' = <<RowMax(1) + 1, RowMax(2) + 1, RowMax(3)>>
       /\ pc' = AfterBuildLattice
       /\ loc' = [i |-> 0]
       /\ UNCHANGED latticeCoords
  /\ UNCHANGED <<cfgVars, runNo, prev, topoVars, percVars, walkVars, msdVars,
                 RNG, outcome>>

(***************************************************************************)
(* Run: RandomWalks.                                                       *)
(***************************************************************************)
\* 1E5 and 1E8, the least and the largest cap on the start search
lowerBound == 100000

upperBound == 100000000

\* std::min(std::max(N, lowerBound), upperBound)
countMax == Min2(Max2(N, lowerBound), upperBound)

\* a 0-based array holding the elements of a sequence
Array(seq) == [k \in 0..(Len(seq) - 1) |-> seq[k + 1]]

\* GetOccupiedNeighbours(pos): the neighbours of pos that are not EMPTY, in
\* the order of the column of nn
RECURSIVE OccupiedFrom(_, _)
OccupiedFrom(pos, k) ==
  IF k > neighbourCount THEN <<>>
  ELSE (IF lattice[nn[pos][k]] = EMPTY THEN <<>> ELSE <<nn[pos][k]>>)
         \o OccupiedFrom(pos, k + 1)

\* the column of nn, whatever the lattice holds
GetAllNeighbours(pos) == [k \in 1..neighbourCount |-> nn[pos][k]]

GetOccupiedNeighbours(pos) == OccupiedFrom(pos, 1)

\* walkMode 1: the sites whose entry is idxMin(0), then idxMin(0) itself,
\* idxMin(0) being the first site holding the least entry above EMPTY
LargestCluster ==
  LET latticeMin ==
        CHOOSE m \in {lattice[s] : s \in Occupied} :
          \A s \in Occupied : m <= lattice[s]
      idxMin == SortedSeq({s \in Occupied : lattice[s] = latticeMin})
  IN SortedSeq({s \in DOMAIN lattice : lattice[s] = idxMin[1]})
       \o <<idxMin[1]>>

\* latticeOnes: the start pool
StartPool ==
  IF walkMode = 1 THEN LargestCluster ELSE SortedSeq(Occupied)

\* the classification of the step from site from to site to
BoundaryFlag(from, to) ==
  LET boundary1 == gridSize
      boundary2 == N - gridSize
  IN IF AnyEq(firstRow, from) /\ AnyEq(lastRow, to) THEN 1
     ELSE IF AnyEq(lastRow, from) /\ AnyEq(firstRow, to) THEN 2
     ELSE IF from >= boundary2 /\ to < boundary1 THEN 3
     ELSE IF from < boundary1 /\ to >= boundary2 THEN 4
     ELSE 0

\* a^e modulo 32749
RECURSIVE PowMod(_, _)
PowMod(a, e) ==
  IF e = 0 THEN 1
  ELSE LET h == PowMod(a, e \div 2)
           sq == (h * h) % 32749
       IN IF e % 2 = 0 THEN sq ELSE (sq * a) % 32749

\* the generator after k draws
RngAfter(g, k) == IF g = Entropy THEN Entropy ELSE (g * PowMod(219, k)) % 32749

\* whether a start site has an occupied nearest neighbour
GoodStart(pos) == GetOccupiedNeighbours(pos) # <<>>

\* the do-while loop of the start search run with a seeded generator g,
\* countLoop being k: the site it leaves with, the counter, the generator
RECURSIVE SearchFrom(_, _, _)
SearchFrom(pool, g, k) ==
  LET pos == pool[(g % Len(pool)) + 1] IN
  IF GoodStart(pos) \/ k >= countMax
  THEN [pos |-> pos, countLoop |-> k, rng |-> RngStep(g)]
  ELSE SearchFrom(pool, RngStep(g), k + 1)

\* the ways the start search over a non-empty pool can end.  With a seeded
\* generator there is one.  With an entropy seed any site with an occupied
\* neighbour can end it after any number of rejections up to countMax, and
\* after countMax rejections any site ends it; since only countLoop ==
\* countMax is looked at afterwards, the counts 0, 1 and countMax are kept.
StartSearch(pool) ==
  LET sites == Range(pool)
      bad == {q \in sites : ~GoodStart(q)}
  IN IF RNG = Entropy THEN
       {[pos |-> q, countLoop |-> k, rng |-> Entropy] :
          q \in sites \ bad,
          k \in IF bad = {} THEN {0} ELSE {0, 1, countMax}}
       \cup {[pos |-> q, countLoop |-> countMax, rng |-> Entropy] : q \in bad}
     ELSE IF bad = sites THEN
       {[pos |-> pool[(RngAfter(RNG, countMax) % Len(pool)) + 1],
         countLoop |-> countMax, rng |-> RngAfter(RNG, countMax + 1)]}
     ELSE {SearchFrom(pool, RNG, 0)}

\* the start pool, before the loop over the walks.  min() of no element and
\* a sample of an empty pool are both out of range.
RandomWalks ==
  /\ pc = "RandomWalks"
  /\ IF Occupied = {} THEN
       /\ pc' = "Aborted"
       /\ outcome' = "index out of range"
       /\ UNCHANGED loc
     ELSE
       /\ pc' = "StartSearch"
       /\ loc' = [i |-> 0, latticeOnes |-> StartPool,
                  boundaryDetect |-> Blank(simLength), pos |-> 0,
                  countLoop |-> 0, j |-> 0]
       /\ UNCHANGED outcome
  /\ UNCHANGED <<cfgVars, runNo, prev, topoVars, percVars, walkVars, msdVars,
                 unitCell, latticeCoords, RNG>>

\* the search of walk i for a start site, and the branch on countLoop ==
\* countMax that follows it; or the end of the loop over the walks
StartSelection ==
  /\ pc = "StartSearch"
  /\ IF loc.i < nWalks THEN
       \E found \in StartSearch(loc.latticeOnes) :
         /\ RNG' = found.rng
         /\ IF found.countLoop = countMax THEN
              /\ walks' = [k \in 0..(simLength - 1) |-> found.pos]
              /\ loc' = [loc EXCEPT !.pos = found.pos,
                                    !.countLoop = found.countLoop,
                                    !.boundaryDetect =
                                       [k \in 0..(simLength - 1) |-> 0],
                                    !.j = 0]
              /\ pc' = "CtrwTimes"
            ELSE
              /\ walks' = [walks EXCEPT ![0] = found.pos]
              /\ loc' = [loc EXCEPT !.pos = found.pos,
                                    !.countLoop = found.countLoop,
                                    !.boundaryDetect[0] = 0,
                                    !.j = 1]
              /\ pc' = "WalkStep"
     ELSE
       /\ pc' = IF noise > 0 THEN "AddNoise" ELSE "AnalyseWalks"
       /\ loc' = [i |-> 0]
       /\ UNCHANGED <<walks, RNG>>
  /\ UNCHANGED <<cfgVars, runNo, prev, topoVars, percVars, trueWalks,
                 ctrwTimes, walksCoords, msdVars, unitCell, latticeCoords,
                 outcome>>

\* The same search, one sample of the do-while loop at a time.  samples
\* counts the passes of the loop body; it is not a variable of the code.
SearchBegin ==
  /\ pc = "StartSearch"
  /\ loc.i < nWalks
  /\ pc' = "SearchLoop"
  /\ loc' = [i |-> loc.i, latticeOnes |-> loc.latticeOnes,
             boundaryDetect |-> loc.boundaryDetect, pos |-> loc.pos,
             countLoop |-> 0, j |-> loc.j, okStart |-> FALSE, samples |-> 0]
  /\ UNCHANGED <<cfgVars, runNo, prev, topoVars, percVars, walkVars, msdVars,
                 unitCell, latticeCoords, RNG, outcome>>

\* the test that ends the search with no bound on the rejections
SearchExitsUncapped(pos, countLoop) == GoodStart(pos)

\* neighbours.n_elem > 0 || countLoop >= countMax
SearchExits(pos, countLoop) == GoodStart(pos) \/ countLoop >= countMax

\* one pass of the body of the do-while loop
SearchSample ==
  /\ pc = "SearchLoop"
  /\ ~loc.okStart
  /\ \E d \in Draws(Len(loc.latticeOnes)) :
       LET pos == loc.latticeOnes[d + 1] IN
       loc' = [loc EXCEPT
                 !.pos = pos,
                 !.samples = loc.samples + 1,
                 !.okStart = SearchExits(pos, loc.countLoop),
                 !.countLoop = IF SearchExits(pos, loc.countLoop)
                               THEN loc.countLoop ELSE loc.countLoop + 1]
  /\ RNG' = Drawn
  /\ UNCHANGED <<cfgVars, runNo, prev, topoVars, percVars, walkVars, msdVars,
                 unitCell, latticeCoords, pc, outcome>>

\* the exit of the do-while loop and the branch on countLoop == countMax
SearchEnd ==
  /\ pc = "SearchLoop"
  /\ loc.okStart
  /\ IF loc.countLoop = countMax THEN
       /\ walks' = [k \in 0..(simLength - 1) |-> loc.pos]
       /\ loc' = [loc EXCEPT !.boundaryDetect =
                               [k \in 0..(simLength - 1) |-> 0],
                             !.j = 0]
       /\ pc' = "CtrwTimes"
     ELSE
       /\ walks' = [walks EXCEPT ![0] = loc.pos]
       /\ loc' = [loc EXCEPT !.boundaryDetect[0] = 0, !.j = 1]
       /\ pc' = "WalkStep"
  /\ UNCHANGED <<cfgVars, runNo, prev, topoVars, percVars, trueWalks,
                 ctrwTimes, walksCoords, msdVars, unitCell, latticeCoords,
                 RNG, outcome>>

\* one microstep of the walk, or the end of its loop.  RandChoice over no
\* neighbour would index an empty vector.
WalkStep ==
  /\ pc = "WalkStep"
  /\ IF loc.j < simLength THEN
       LET neighbours == GetOccupiedNeighbours(loc.pos) IN
       IF neighbours = <<>> THEN
         /\ pc' = "Aborted"
         /\ outcome' = "index out of range"
         /\ UNCHANGED <<walks, loc, RNG>>
       ELSE
         /\ \E c \in Draws(Len(neighbours)) :
              LET to == neighbours[c + 1] IN
              /\ walks' = [walks EXCEPT ![loc.j] = to]
              /\ loc' = [loc EXCEPT !.pos = to,
                                    !.boundaryDetect[loc.j] =
                                       BoundaryFlag(walks[loc.j - 1], to),
                                    !.j = loc.j + 1]
         /\ RNG' = Drawn
         /\ UNCHANGED <<pc, outcome>>
     ELSE
       /\ pc' = "CtrwTimes"
       /\ loc' = [loc EXCEPT !.j = 0]
       /\ UNCHANGED <<walks, RNG, outcome>>
  /\ UNCHANGED <<cfgVars, runNo, prev, topoVars, percVars, trueWalks,
                 ctrwTimes, walksCoords, msdVars, unitCell, latticeCoords>>

\* one waiting time of the continuous-time walk, or the end of the draws.
\* Times are kept in quarters, as tau0 is.  A waiting time is tau0 * exp(x)
\* with x >= 0 drawn from the exponential distribution: tau0 times a factor
\* of at least 1, here a whole one up to MaxWait.
CtrwTimes ==
  /\ pc = "CtrwTimes"
  /\ IF beta > 0 /\ loc.j < simLength THEN
       /\ \E d \in Draws(MaxWait) :
            ctrwTimes' =
              [(IF loc.j = 0 THEN Blank(simLength) ELSE ctrwTimes)
                 EXCEPT ![loc.j] =
                   (IF loc.j = 0 THEN 0 ELSE ctrwTimes[loc.j - 1])
                     + tau0 * (1 + d)]
       /\ RNG' = Drawn
       /\ loc' = [loc EXCEPT !.j = loc.j + 1]
       /\ UNCHANGED pc
     ELSE
       /\ ctrwTimes' = IF beta > 0 THEN ctrwTimes
                       ELSE [k \in 0..(simLength - 1) |-> 4 * (k + 1)]
       /\ pc' = "Subordinate"
       /\ UNCHANGED <<RNG, loc>>
  /\ UNCHANGED <<cfgVars, runNo, prev, topoVars, percVars, walks, trueWalks,
                 walksCoords, msdVars, unitCell, latticeCoords, outcome>>

\* the indices arma::find(ctrwTimes >= walkLength) returns
BoundaryTimes == {k \in DOMAIN ctrwTimes : ctrwTimes[k] >= 4 * walkLength}

\* ctrwTimes cut after its first entry at or past walkLength, that entry
\* set to walkLength
TruncatedTimes ==
  LET boundaryTime == CHOOSE k \in BoundaryTimes : \A m \in BoundaryTimes : k <= m
  IN [k \in 0..boundaryTime |->
        IF k = boundaryTime THEN 4 * walkLength ELSE ctrwTimes[k]]

\* the loop over the ticks j .. walkLength - 1, counter microsteps being
\* consumed so far: the site and the boundary flag of each tick
RECURSIVE Subordinated(_, _, _)
Subordinated(times, j, counter) ==
  IF j >= walkLength THEN <<>>
  ELSE IF 4 * j > times[counter]
       THEN <<[site |-> walks[counter + 1],
               flag |-> loc.boundaryDetect[counter + 1]]>>
              \o Subordinated(times, j + 1, counter + 1)
       ELSE <<[site |-> walks[counter], flag |-> 0]>>
              \o Subordinated(times, j + 1, counter)

\* the switch on boundaryTrue(nstep): the change of <<nxCell, nyCell>>
CellShift(flag) ==
  CASE flag = 1 -> <<0, 1>>
    [] flag = 2 -> <<0, -1>>
    [] flag = 3 -> <<1, 0>>
    [] flag = 4 -> <<-1, 0>>
    [] OTHER -> <<0, 0>>

\* the loop over nstep: the coordinates of the ticks from nstep on
RECURSIVE Unwrapped(_, _, _, _)
Unwrapped(ticks, nstep, nxCell, nyCell) ==
  IF nstep > Len(ticks) THEN <<>>
  ELSE LET nx == nxCell + CellShift(ticks[nstep].flag)[1]
           ny == nyCell + CellShift(ticks[nstep].flag)[2]
           site == ticks[nstep].site
       IN <<(<<latticeCoords[site][1] + nx * unitCell[1],
               latticeCoords[site][2] + ny * unitCell[2]>>)>>
            \o Unwrapped(ticks, nstep + 1, nx, ny)

\* the rest of the body of the loop over the walks: the cut of ctrwTimes,
\* the subordination and the conversion to coordinates.  With no time at
\* or past walkLength, boundaryTime_(0) is out of range.
Subordinate ==
  /\ pc = "Subordinate"
  /\ IF BoundaryTimes = {} THEN
       /\ pc' = "Aborted"
       /\ outcome' = "index out of range"
       /\ UNCHANGED <<ctrwTimes, trueWalks, walksCoords, loc>>
     ELSE
       LET ticks == Subordinated(TruncatedTimes, 0, 0) IN
       /\ ctrwTimes' = TruncatedTimes
       /\ trueWalks' = [j \in 0..(walkLength - 1) |-> ticks[j + 1].site]
       /\ walksCoords' =
            [walksCoords EXCEPT ![loc.i] = Array(Unwrapped(ticks, 1, 0, 0))]
       /\ loc' = [loc EXCEPT !.i = loc.i + 1]
       /\ pc' = "StartSearch"
       /\ UNCHANGED outcome
  /\ UNCHANGED <<cfgVars, runNo, prev, topoVars, percVars, walks, msdVars,
                 unitCell, latticeCoords, RNG>>

(***************************************************************************)
(* Run: AddNoise.  A normal variate of deviation noise is one of -noise,   *)
(* 0 and noise.                                                            *)
(***************************************************************************)
\* one element of noiseCube, in the order imbue fills the cube, added to
\* walksCoords; or the end of the cube
AddNoise ==
  /\ pc = "AddNoise"
  /\ IF loc.i < 2 * walkLength * nWalks THEN
       LET r == (loc.i % 2) + 1
           t == (loc.i \div 2) % walkLength
           w == loc.i \div (2 * walkLength)
       IN /\ \E d \in Draws(3) :
               walksCoords' =
                 [walksCoords EXCEPT ![w][t][r] = @ + noise * (d - 1)]
          /\ RNG' = Drawn
          /\ loc' = [i |-> loc.i + 1]
          /\ UNCHANGED pc
     ELSE
       /\ pc' = "AnalyseWalks"
       /\ loc' = [i |-> 0]
       /\ UNCHANGED <<walksCoords, RNG>>
  /\ UNCHANGED <<cfgVars, runNo, prev, topoVars, percVars, walks, trueWalks,
                 ctrwTimes, msdVars, unitCell, latticeCoords, outcome>>

(***************************************************************************)
(* Run: AnalyseWalks.  A double is the exact ratio n / d in lowest terms   *)
(* with d >= 0: d = 0 is a non-finite value, NaN when n = 0 and an         *)
(* infinity of the sign of n otherwise.                                    *)
(***************************************************************************)
Sign(n) == IF n > 0 THEN 1 ELSE IF n < 0 THEN -1 ELSE 0

Ratio(n, d) ==
  IF d = 0 THEN [n |-> Sign(n), d |-> 0]
  ELSE LET g == GCD(Abs(n), Abs(d))
       IN [n |-> Sign(d) * (n \div g), d |-> Abs(d) \div g]

Whole(n) == [n |-> n, d |-> 1]

NaN == [n |-> 0, d |-> 0]

IsFinite(a) == a.d # 0

RAdd(a, b) ==
  IF IsFinite(a) /\ IsFinite(b) THEN Ratio(a.n * b.d + b.n * a.d, a.d * b.d)
  ELSE IF IsFinite(a) THEN b
  ELSE IF IsFinite(b) \/ a = b THEN a
  ELSE NaN

RMul(a, b) == Ratio(a.n * b.n, a.d * b.d)

RSub(a, b) == RAdd(a, RMul(Whole(-1), b))

RDiv(a, b) ==
  IF IsFinite(b)
  THEN (IF b.n = 0 THEN Ratio(a.n, 0)
        ELSE Ratio(a.n * b.d * Sign(b.n), a.d * Abs(b.n)))
  ELSE IF IsFinite(a) /\ b # NaN THEN Whole(0) ELSE NaN

\* x.elem(arma::find_nonfinite(x)).zeros(), on one element
ZeroNonFinite(a) == IF IsFinite(a) THEN a ELSE Whole(0)

RECURSIVE RSum(_, _)
RSum(f, n) == IF n = 0 THEN Whole(0) ELSE RAdd(RSum(f, n - 1), f[n - 1])

\* arma::mean(X, 1) at row r, X being held walk by walk
RowMean(X, r) ==
  RDiv(RSum([w \in 0..(nWalks - 1) |-> X[w][r]], nWalks), Whole(nWalks))

SquaredDist(x1, x2, y1, y2) == (x1 - x2) * (x1 - x2) + (y1 - y2) * (y1 - y2)

RECURSIVE Integral(_, _, _)
Integral(walk, diff, delta) ==
  IF diff = 0 THEN 0
  ELSE Integral(walk, diff - 1, delta)
         + SquaredDist(walk[diff - 1 + delta][1], walk[diff - 1][1],
                       walk[diff - 1 + delta][2], walk[diff - 1][2])

\* TAMSD(walk, t, delta): integral / diff, 0. / 0 when t = delta
TAMSD(walk, t, delta) == Ratio(Integral(walk, t - delta, delta), t - delta)

\* a worker of parallel that holds no walk
Idle == [walk |-> -1, j |-> 0]

\* the elements of the three matrices func writes: matrix, row, column
Cells ==
  {"eaMSDall", "taMSD", "eataMSDall"}
    \X (0..(walkLength - 2)) \X (0..(nWalks - 1))

\* the zeroing of the placeholders, before the parallel map.  The workers
\* start idle; by and writers record which worker was handed each walk and
\* which workers wrote each element, and are not variables of the code.
AnalyseWalks ==
  /\ pc = "AnalyseWalks"
  /\ eaMSDall' = [w \in 0..(nWalks - 1) |->
                    [r \in 0..(walkLength - 2) |-> Whole(0)]]
  /\ taMSD' = eaMSDall'
  /\ eataMSDall' = eaMSDall'
  /\ pc' = "AnalyseFunc"
  /\ loc' = [done |-> {},
             worker |-> [w \in 1..nJobs |-> Idle],
             by |-> [i \in 0..(nWalks - 1) |-> {}],
             writers |-> [c \in Cells |-> {}]]
  /\ UNCHANGED <<cfgVars, runNo, prev, topoVars, percVars, walkVars, analysis,
                 unitCell, latticeCoords, RNG, outcome>>

\* the walks parallel(func, 0, nWalks, nJobs) has yet to hand to func: each
\* walk is handed over once, in an order the workers settle
ParallelPending == (0..(nWalks - 1)) \ loc.done

\* func(i): the three per-walk columns
AnalyseFunc ==
  /\ pc = "AnalyseFunc"
  /\ \E i \in ParallelPending :
       LET walk == walksCoords[i] IN
       /\ eaMSDall' =
            [eaMSDall EXCEPT ![i] =
               [r \in 0..(walkLength - 2) |->
                  Whole(SquaredDist(walk[r + 1][1], walk[0][1],
                                    walk[r + 1][2], walk[0][2]))]]
       /\ taMSD' =
            [taMSD EXCEPT ![i] =
               [r \in 0..(walkLength - 2) |-> TAMSD(walk, walkLength, r + 1)]]
       /\ eataMSDall' =
            [eataMSDall EXCEPT ![i] =
               [r \in 0..(walkLength - 2) |-> TAMSD(walk, r + 1, 1)]]
       /\ loc' = [loc EXCEPT !.done = loc.done \cup {i}]
  /\ UNCHANGED <<cfgVars, runNo, prev, topoVars, percVars, walkVars, analysis,
                 unitCell, latticeCoords, RNG, pc, outcome>>

\* The same map with its workers apart.  A worker that holds no walk is
\* handed one that is pending and calls func on it.
WorkerTake(w) ==
  /\ pc = "AnalyseFunc"
  /\ loc.worker[w] = Idle
  /\ \E i \in ParallelPending :
       loc' = [loc EXCEPT !.done = loc.done \cup {i},
                          !.worker[w] = [walk |-> i, j |-> 1],
                          !.by[i] = loc.by[i] \cup {w}]
  /\ UNCHANGED <<cfgVars, runNo, prev, topoVars, percVars, walkVars, msdVars,
                 unitCell, latticeCoords, RNG, pc, outcome>>

\* every call of func writing the column of walk 0
FuncColumnShared(i) == 0

\* the column func(i) writes: eaMSDall(j - 1, i), taMSD(j - 1, i),
\* eataMSDall(j - 1, i)
FuncColumn(i) == i

\* one iteration of the loop of func(i) run by worker w, or its return
FuncStep(w) ==
  /\ pc = "AnalyseFunc"
  /\ loc.worker[w] # Idle
  /\ LET i == loc.worker[w].walk
         j == loc.worker[w].j
         col == FuncColumn(i)
         walk == walksCoords[i]
     IN IF j < walkLength THEN
          /\ eaMSDall' =
               [eaMSDall EXCEPT ![col][j - 1] =
                  Whole(SquaredDist(walk[j][1], walk[0][1],
                                    walk[j][2], walk[0][2]))]
          /\ taMSD' = [taMSD EXCEPT ![col][j - 1] = TAMSD(walk, walkLength, j)]
          /\ eataMSDall' = [eataMSDall EXCEPT ![col][j - 1] = TAMSD(walk, j, 1)]
          /\ loc' = [loc EXCEPT
                       !.worker[w].j = j + 1,
                       !.writers =
                          [c \in Cells |->
                             IF c[2] = j - 1 /\ c[3] = col
                             THEN loc.writers[c] \cup {w}
                             ELSE loc.writers[c]]]
        ELSE
          /\ loc' = [loc EXCEPT !.worker[w] = Idle]
          /\ UNCHANGED <<eaMSDall, taMSD, eataMSDall>>
  /\ UNCHANGED <<cfgVars, runNo, prev, topoVars, percVars, walkVars, analysis,
                 unitCell, latticeCoords, RNG, pc, outcome>>

\* parallel(func, 0, nWalks, nJobs): a step of one of its nJobs workers
ParallelTake == \E w \in 1..nJobs : WorkerTake(w)

ParallelStep == \E w \in 1..nJobs : FuncStep(w)

\* eaMSDall after eaMSDall.elem(arma::find_nonfinite(eataMSDall)).zeros()
EaMSDallZeroed ==
  [w \in 0..(nWalks - 1) |->
     [r \in 0..(walkLength - 2) |->
        IF IsFinite(eataMSDall[w][r]) THEN eaMSDall[w][r] ELSE Whole(0)]]

\* eataMSD with its non-finite means left in
EataMSDUnchecked(r) == RowMean(eataMSDall, r)

\* eataMSD = arma::mean(eataMSDall, 1), its non-finite elements zeroed
EataMSD(r) == ZeroNonFinite(RowMean(eataMSDall, r))

\* taMSD after taMSD.elem(arma::find_nonfinite(taMSD)).zeros()
TaMSDZeroed ==
  [w \in 0..(nWalks - 1) |->
     [r \in 0..(walkLength - 2) |-> ZeroNonFinite(taMSD[w][r])]]

\* the ergodicity breaking parameter at row r
Ergodicity(r) ==
  LET meanTAMSD == RMul(RowMean(TaMSDZeroed, r), RowMean(TaMSDZeroed, r))
      squares == [w \in 0..(nWalks - 1) |->
                    [q \in 0..(walkLength - 2) |->
                       RMul(TaMSDZeroed[w][q], TaMSDZeroed[w][q])]]
      meanTAMSD2 == RowMean(squares, r)
      first == ZeroNonFinite(RDiv(RSub(meanTAMSD2, meanTAMSD), meanTAMSD))
  IN ZeroNonFinite(RDiv(first, Whole(r + 1)))

\* after parallel returns: the zeroing, the means and the columns of
\* analysis; Run returns and CTRWwrapper copies the three outputs
AnalyseEnd ==
  /\ pc = "AnalyseFunc"
  /\ ParallelPending = {}
  /\ \A w \in DOMAIN loc.worker : loc.worker[w] = Idle
  /\ taMSD' = TaMSDZeroed
  /\ eaMSDall' = EaMSDallZeroed
  /\ analysis' =
       [r \in 0..(walkLength - 2) |->
          [c \in 0..(nWalks + 2) |->
             CASE c = 0 -> RowMean(EaMSDallZeroed, r)
               [] c = 1 -> EataMSD(r)
               [] c = 2 -> Ergodicity(r)
               [] OTHER -> TaMSDZeroed[c - 3][r]]]
  /\ pc' = "Returned"
  /\ loc' = [i |-> 0]
  /\ UNCHANGED <<cfgVars, runNo, prev, topoVars, percVars, walkVars,
                 eataMSDall, unitCell, latticeCoords, RNG, outcome>>

(***************************************************************************)
(* CTRWwrapper called a second time with the same arguments and seed, on   *)
(* any number of workers.                                                  *)
(***************************************************************************)
\* what a finished call leaves behind
Results ==
  [pc |-> pc, occupation |-> occupation, lattice |-> lattice,
   latticeCoords |-> latticeCoords, walksCoords |-> walksCoords,
   analysis |-> analysis, RNG |-> RNG]

Restart ==
  /\ pc \in {"Returned", "Aborted"}
  /\ runNo = 1
  /\ runNo' = 2
  /\ prev' = [results |-> Results, nJobs |-> nJobs]
  /\ nJobs' \in 1..MaxJobs
  /\ simLength' = SimLengthOf(walkLength, tau0)
  /\ walks' = Blank(simLength)
  /\ ctrwTimes' = Blank(simLength)
  /\ trueWalks' = Blank(walkLength)
  /\ eaMSDall' = [w \in 0..(nWalks - 1) |-> Blank(walkLength - 1)]
  /\ taMSD' = eaMSDall'
  /\ eataMSDall' = eaMSDall'
  /\ N' = 0
  /\ EMPTY' = 0
  /\ neighbourCount' = 0
  /\ nn' = Blank(0)
  /\ firstRow' = Blank(0)
  /\ lastRow' = Blank(0)
  /\ lattice' = Blank(0)
  /\ occupation' = Blank(0)
  /\ unitCell' = Blank(0)
  /\ latticeCoords' = Blank(0)
  /\ analysis' = Blank(0)
  /\ walksCoords' = Blank(0)
  /\ RNG' = Entropy
  /\ pc' = "Initialize"
  /\ loc' = [i |-> 0]
  /\ outcome' = "running"
  /\ UNCHANGED <<gridSize, nWalks, walkLength, threshold, beta, tau0, noise,
                 latticeMode, walkMode, randomSeed>>

(***************************************************************************)
(* The lattice topology on its own: every gridSize up to MaxGridSize and   *)
(* every value of the lattice mode byte, 2 standing for the unsupported    *)
(* ones.                                                                   *)
(***************************************************************************)
BaseConfig ==
  [gridSize |-> 1, nWalks |-> 0, walkLength |-> 2, threshold |-> 4,
   beta |-> 0, tau0 |-> 4, noise |-> 0, latticeMode |-> 0, walkMode |-> 0,
   nJobs |-> 1, randomSeed |-> 0]

InitTopology ==
  /\ \E g \in 1..MaxGridSize, m \in {0, 1, 2} :
       Construct([BaseConfig EXCEPT !.gridSize = g, !.latticeMode = m])
  /\ runNo = 1
  /\ prev = <<>>

NextTopology ==
  \/ InitializeBegin
  \/ BoundariesSquare
  \/ BoundariesHoneycomb
  \/ InitializeSizes

SpecTopology == InitTopology /\ [][NextTopology]_vars

(***************************************************************************)
(* Percolation: every lattice up to MaxPercGrid, thresholds in (0, 1].     *)
(* A lattice of at most MaxEntropySites sites is run with an entropy       *)
(* seed, that is on every sequence of draws, and with the user seeds; a    *)
(* larger one with the user seeds only.                                    *)
(***************************************************************************)
Sites(g, m) == (IF m = 1 THEN 4 ELSE 1) * g * g

Seeds(g, m) ==
  (IF Sites(g, m) <= MaxEntropySites THEN {-1} ELSE {}) \cup 0..MaxSeed

InitPerc ==
  /\ \E g \in 1..MaxPercGrid, m \in {0, 1}, t \in 1..ThresholdDen :
       \E sd \in Seeds(g, m) :
         Construct([BaseConfig EXCEPT !.gridSize = g, !.latticeMode = m,
                                      !.threshold = t, !.randomSeed = sd])
  /\ runNo = 1
  /\ prev = <<>>

NextPerc ==
  \/ InitializeBegin
  \/ BoundariesSquare
  \/ BoundariesHoneycomb
  \/ InitializeSizes
  \/ Permutation
  \/ PermutationSwap
  \/ Percolate
  \/ PercolateSite

SpecPerc == InitPerc /\ [][NextPerc]_vars

(***************************************************************************)
(* Percolation with a threshold outside (0, 1), on the lattices of at most *)
(* MaxEntropySites sites.                                                  *)
(***************************************************************************)
InitDegenerate ==
  /\ \E g \in 1..MaxPercGrid, m \in {0, 1} :
       \E t \in ((-1)..0) \cup (ThresholdDen..MaxThresholdNum) :
         \E sd \in Seeds(g, m) :
           /\ Sites(g, m) <= MaxEntropySites
           /\ Construct([BaseConfig EXCEPT !.gridSize = g, !.latticeMode = m,
                                        !.threshold = t, !.randomSeed = sd])
  /\ runNo = 1
  /\ prev = <<>>

NextDegenerate ==
  \/ NextPerc
  \/ PercolateOverrun

SpecDegenerate == InitDegenerate /\ [][NextDegenerate]_vars

(***************************************************************************)
(* A whole call on the square lattice, walks and analysis included.  The   *)
(* threshold is a half or one; tau0 is a half, three quarters or one.  A   *)
(* run seeded from entropy is followed through every draw on the lattices *)
(* of at most MaxEntropySites sites, for one walker, two ticks, tau0 = 1   *)
(* and no noise.                                                           *)
(***************************************************************************)
WalkConfigs(grids, modes, walkers, lengths, taus) ==
  {c \in [gridSize : grids, nWalks : walkers, walkLength : lengths,
          threshold : {ThresholdDen \div 2, ThresholdDen}, beta : {0, 1},
          tau0 : taus, noise : {0, 1}, latticeMode : modes,
          walkMode : {0, 1}, nJobs : {1},
          randomSeed : {Entropy} \cup 0..MaxSeed] :
     c.randomSeed = Entropy =>
       /\ Sites(c.gridSize, c.latticeMode) <= MaxEntropySites
       /\ c.nWalks <= 1
       /\ c.walkLength = 2
       /\ c.tau0 = 4
       /\ c.noise = 0}

InitRun ==
  /\ \E c \in WalkConfigs(1..MaxWalkGrid, {0}, 1..MaxWalks,
                          2..MaxWalkLength, 2..4) : Construct(c)
  /\ runNo = 1
  /\ prev = <<>>

NextRun ==
  \/ InitializeBegin
  \/ BoundariesSquare
  \/ InitializeSizes
  \/ Permutation
  \/ PermutationSwap
  \/ Percolate
  \/ PercolateSite
  \/ BuildLatticeSquare
  \/ RandomWalks
  \/ StartSelection
  \/ WalkStep
  \/ CtrwTimes
  \/ Subordinate
  \/ AddNoise
  \/ AnalyseWalks
  \/ AnalyseFunc
  \/ AnalyseEnd

SpecRun == InitRun /\ [][NextRun]_vars

(***************************************************************************)
(* Two calls with the same arguments and seed, on both lattices of at most *)
(* MaxEntropySites sites, with no walker or one walker of two ticks.  The  *)
(* calls seeded from entropy have no walker, and the calls with no walker  *)
(* leave the parameters of the walk at 0.                                  *)
(***************************************************************************)
InitTwoRuns ==
  /\ \E c \in WalkConfigs(1..MaxGridSize, {0, 1}, 0..1, {2}, {4}) :
       /\ Sites(c.gridSize, c.latticeMode) <= MaxEntropySites
       /\ c.randomSeed = Entropy => c.nWalks = 0
       /\ c.nWalks = 0 => (c.beta = 0 /\ c.noise = 0 /\ c.walkMode = 0)
       /\ Construct(c)
  /\ runNo = 1
  /\ prev = <<>>

NextTwoRuns ==
  \/ NextRun
  \/ BoundariesHoneycomb
  \/ BuildLatticeHoneycomb
  \/ Restart

SpecTwoRuns == InitTwoRuns /\ [][NextTwoRuns]_vars

(***************************************************************************)
(* A whole call on the square lattice with a threshold of at most a half   *)
(* and tau0 a half or one.                                                 *)
(***************************************************************************)
SparseConfigs ==
  {[c EXCEPT !.threshold = t] :
     c \in {b \in WalkConfigs(1..MaxWalkGrid, {0}, 1..MaxWalks,
                              2..MaxWalkLength, {2, 4}) :
              b.threshold = ThresholdDen},
     t \in 1..(ThresholdDen \div 2)}

InitSparse ==
  /\ \E c \in SparseConfigs : Construct(c)
  /\ runNo = 1
  /\ prev = <<>>

SpecSparse == InitSparse /\ [][NextRun]_vars

(***************************************************************************)
(* A call up to the start pool of the walks: Initialize, Permutation,      *)
(* Percolate, BuildLattice and the head of RandomWalks, on both lattices,  *)
(* for one walker in either walk mode.                                     *)
(***************************************************************************)
InitLattice ==
  /\ \E g \in 1..MaxPercGrid, m \in {0, 1}, t \in 1..ThresholdDen :
       \E sd \in Seeds(g, m), wm \in {0, 1} :
         Construct([BaseConfig EXCEPT !.gridSize = g, !.latticeMode = m,
                                      !.threshold = t, !.randomSeed = sd,
                                      !.nWalks = 1, !.walkMode = wm])
  /\ runNo = 1
  /\ prev = <<>>

NextLattice ==
  \/ NextPerc
  \/ BuildLatticeSquare
  \/ BuildLatticeHoneycomb
  \/ RandomWalks

SpecLattice == InitLattice /\ [][NextLattice]_vars

(***************************************************************************)
(* The start search of one walk, sample by sample: square lattices that    *)
(* are half occupied, just over half occupied and fully occupied, seeded   *)
(* generators.                                                             *)
(***************************************************************************)
InitSearch ==
  /\ \E g \in 2..MaxSearchGrid, sd \in 0..MaxSearchSeed, wm \in {0, 1},
        t \in {ThresholdDen \div 2, (ThresholdDen \div 2) + 1, ThresholdDen} :
       Construct([BaseConfig EXCEPT !.gridSize = g, !.threshold = t,
                                    !.randomSeed = sd, !.nWalks = 1,
                                    !.walkMode = wm])
  /\ runNo = 1
  /\ prev = <<>>

NextSearch ==
  \/ InitializeBegin
  \/ BoundariesSquare
  \/ InitializeSizes
  \/ Permutation
  \/ PermutationSwap
  \/ Percolate
  \/ PercolateSite
  \/ BuildLatticeSquare
  \/ RandomWalks
  \/ SearchBegin
  \/ SearchSample
  \/ SearchEnd

SpecSearch == InitSearch /\ [][NextSearch]_vars

(***************************************************************************)
(* Whole calls on a square lattice whose analysis is run by 1 .. MaxJobs   *)
(* workers, a loop iteration of one worker at a time: seeded generators,   *)
(* walkers started anywhere.                                               *)
(***************************************************************************)
InitAnalysis ==
  /\ \E c \in WalkConfigs(2..MaxSearchGrid, {0}, 1..MaxWalks,
                          2..MaxWalkLength, {4}), nj \in 1..MaxJobs :
       /\ c.randomSeed \in 0..MaxSearchSeed
       /\ c.walkMode = 0
       /\ Construct([c EXCEPT !.nJobs = nj])
  /\ runNo = 1
  /\ prev = <<>>

NextAnalysis ==
  \/ InitializeBegin
  \/ BoundariesSquare
  \/ InitializeSizes
  \/ Permutation
  \/ PermutationSwap
  \/ Percolate
  \/ PercolateSite
  \/ BuildLatticeSquare
  \/ RandomWalks
  \/ StartSelection
  \/ WalkStep
  \/ CtrwTimes
  \/ Subordinate
  \/ AddNoise
  \/ AnalyseWalks
  \/ ParallelTake
  \/ ParallelStep
  \/ AnalyseEnd

SpecAnalysis == InitAnalysis /\ [][NextAnalysis]_vars

(***************************************************************************)
(* One walk of two ticks on the square lattice of FallbackGrid rows, just  *)
(* over a third of it occupied, with an entropy seed: every occupation     *)
(* order, and every way the start search can end.                          *)
(***************************************************************************)
InitFallback ==
  /\ Construct([BaseConfig EXCEPT !.gridSize = FallbackGrid,
                                  !.threshold = (ThresholdDen \div 2) - 1,
                                  !.randomSeed = Entropy, !.nWalks = 1])
  /\ runNo = 1
  /\ prev = <<>>

NextFallback ==
  \/ InitializeBegin
  \/ BoundariesSquare
  \/ InitializeSizes
  \/ Permutation
  \/ PermutationSwap
  \/ Percolate
  \/ PercolateSite
  \/ BuildLatticeSquare
  \/ RandomWalks
  \/ StartSelection

SpecFallback == InitFallback /\ [][NextFallback]_vars

(***************************************************************************)
(* Properties of the neighbour table.                                      *)
(***************************************************************************)
InitializeDone ==
  pc \notin {"Initialize", "BoundariesSquare", "BoundariesHoneycomb",
             "InitializeSizes"}

\* C1: after Initialize, in both lattice modes (square: k = 4 and
\* N = gridSize^2; honeycomb: k = 3 and N = 4 * gridSize^2), every column of
\* nn holds exactly k entries, each a site index in [0, N), and adjacency is
\* symmetric: if b is among the neighbours of a then a is among those of b.
C1_NeighbourTable ==
  (InitializeDone /\ latticeMode \in {0, 1}) =>
    LET k == IF latticeMode = 0 THEN 4 ELSE 3 IN
    /\ N = (IF latticeMode = 0 THEN 1 ELSE 4) * gridSize * gridSize
    /\ neighbourCount = k
    /\ DOMAIN nn = 0..(N - 1)
    /\ \A a \in 0..(N - 1) :
         /\ Len(nn[a]) = k
         /\ \A e \in 1..k : nn[a][e] \in 0..(N - 1)
         /\ \A b \in Range(nn[a]) : a \in Range(nn[b])

C1_Witness ==
  InitializeDone /\ latticeMode = 1 /\ gridSize >= 2

\* C9: Initialize called with a lattice mode that is neither 0 nor 1 ends
\* the run with a configuration error: it never goes on to size the lattice
\* arrays from N, and no later stage runs.
C9_ConfigErrorIsFatal ==
  (latticeMode \notin {0, 1}) =>
    (pc = "Initialize" \/ outcome = "configuration error")

(***************************************************************************)
(* Properties of the percolation.                                          *)
(***************************************************************************)
\* the sites Percolate has occupied so far, by the occupation order
OccupiedInOrder ==
  IF pc = "PercolateSite" /\ loc.i <= N
  THEN {occupation[k] : k \in 0..(loc.i - 1)}
  ELSE Occupied

\* the sites of occ joined to the sites of S by paths of adjacent sites
\* of occ
RECURSIVE Joined(_, _)
Joined(S, occ) ==
  LET T == S \cup {b \in occ : \E a \in S : b \in Range(nn[a])}
  IN IF T = S THEN S ELSE Joined(T, occ)

\* the connected occupied component of a
Component(a) == Joined({a}, Occupied)

RECURSIVE SetSum(_, _)
SetSum(S, f) ==
  IF S = {} THEN 0
  ELSE LET x == CHOOSE y \in S : TRUE IN f[x] + SetSum(S \ {x}, f)

PercolateRunning == pc \in {"PercolateSite", "BuildLattice"}

\* C2: after Percolate and after every site occupation inside it, each
\* unoccupied site holds EMPTY, the parent chain of each occupied site ends
\* at a root without cycling, and two occupied sites reach the same root
\* exactly when a path of adjacent occupied sites joins them.
C2_UnionFind ==
  PercolateRunning =>
    /\ \A s \in 0..(N - 1) : s \notin OccupiedInOrder <=> lattice[s] = EMPTY
    /\ \A s \in Occupied : RootOf(s) # -1
    \* the sites that reach a root are exactly the sites joined to it
    /\ \A r \in {s \in Occupied : IsRoot(s)} :
         {b \in Occupied : RootOf(b) = r} = Component(r)

C2_Witness ==
  /\ pc = "PercolateSite"
  /\ \E a \in Occupied, b \in Occupied : a # b /\ RootOf(a) = RootOf(b)
  /\ \E a \in Occupied, b \in Occupied : RootOf(a) # RootOf(b)
  /\ \E s \in Occupied : lattice[s] >= 0 /\ lattice[lattice[s]] >= 0

\* C3: after every site occupation, each connected occupied component has
\* exactly one root, the magnitude stored at the root is the number of
\* sites of the component, and the magnitudes of all roots add up to the
\* number of occupied sites.
C3_RootSizes ==
  PercolateRunning =>
    LET roots == {s \in Occupied : IsRoot(s)} IN
    /\ \A r \in roots :
         LET comp == Component(r)
         IN /\ comp \cap roots = {r}
            /\ -lattice[r] = Cardinality(comp)
    /\ Joined(roots, Occupied) = Occupied
    /\ SetSum(roots, [r \in DOMAIN lattice |-> -lattice[r]])
         = Cardinality(Occupied)

C3_Witness ==
  /\ pc = "PercolateSite"
  /\ \E r \in Occupied : lattice[r] <= -3
  /\ Cardinality({r \in Occupied : IsRoot(r)}) >= 2

\* the threshold is in (0, 1) and threshold * N >= 1
ThresholdInRange ==
  /\ 0 < threshold
  /\ threshold < ThresholdDen
  /\ threshold * N >= ThresholdDen

\* the first n sites of the occupation order
FirstOfOrder(n) == {occupation[k] : k \in 0..(n - 1)}

\* C4 as stated: for a threshold in (0, 1) with threshold * N >= 1,
\* Percolate occupies exactly the first floor(threshold * N) - 1 sites of
\* the occupation order and leaves every other site EMPTY.
C4_OccupiesFloorMinusOne ==
  (pc = "BuildLattice" /\ ThresholdInRange) =>
    Occupied = FirstOfOrder((threshold * N) \div ThresholdDen - 1)

\* C4 as amended: for a threshold in (0, 1) with threshold * N >= 1,
\* Percolate occupies exactly the first ceil(threshold * N) - 1 sites of the
\* occupation order and leaves every other site EMPTY; that is
\* floor(threshold * N) - 1 sites when threshold * N is an integer and
\* floor(threshold * N) sites when it is not.
C4_OccupiesCeilMinusOne ==
  (pc = "BuildLattice" /\ ThresholdInRange) =>
    /\ Occupied = FirstOfOrder(CeilDiv(threshold * N, ThresholdDen) - 1)
    /\ Cardinality(Occupied) =
         (threshold * N) \div ThresholdDen
           - (IF (threshold * N) % ThresholdDen = 0 THEN 1 ELSE 0)

C4_Witness ==
  /\ pc = "BuildLattice"
  /\ ThresholdInRange
  /\ (threshold * N) % ThresholdDen # 0
  /\ Cardinality(Occupied) >= 2
  /\ Cardinality(Occupied) < N

\* C10: with a threshold outside (0, 1), Percolate completes without
\* reading the occupation order or the lattice at an index outside [0, N)
\* and without an error: a threshold <= 0 leaves every site EMPTY and a
\* threshold >= 1 leaves at most N sites occupied.
C10_DegenerateThresholdInRange ==
  (threshold <= 0 \/ threshold >= ThresholdDen) =>
    /\ (pc = "PercolateSite" /\ PercolateContinues(loc.i)) => loc.i < N
    /\ outcome = "running"
    /\ pc # "Aborted"
    /\ (pc = "BuildLattice" /\ threshold <= 0) => Occupied = {}
    /\ pc = "BuildLattice" => Cardinality(Occupied) <= N

(***************************************************************************)
(* Properties of the walks and of their analysis.                          *)
(***************************************************************************)
\* the squared distance between ticks a and b of walk w
TickDist(w, a, b) ==
  SquaredDist(walksCoords[w][a][1], walksCoords[w][b][1],
              walksCoords[w][a][2], walksCoords[w][b][2])

\* C8: with noise = 0 on the square lattice (gridSize >= 3), for every walk
\* and every pair of consecutive ticks j - 1 and j, the unwrapped
\* coordinates are equal or differ by exactly one lattice spacing along
\* exactly one axis, whichever periodic edge the consumed step crosses: no
\* jump of gridSize - 1 appears.
C8_UnwrappedStepsAreUnit ==
  (pc = "Returned" /\ noise = 0 /\ latticeMode = 0 /\ gridSize >= 3) =>
    \A w \in 0..(nWalks - 1) : \A j \in 1..(walkLength - 1) :
      TickDist(w, j - 1, j) <= 1

\* the mean over the walks of the squared distance between ticks j and 0
MeanDisplacement(j) ==
  RowMean([w \in 0..(nWalks - 1) |->
             [r \in 0..(walkLength - 2) |-> Whole(TickDist(w, r + 1, 0))]],
          j - 1)

\* C7: for every lag j in [1, walkLength), row j - 1 of column 0 of analysis
\* is the mean over all walks of the squared distance between the walk's
\* coordinates at tick j and at tick 0, and the zeroing of non-finite values
\* leaves every finite per-walk ensemble value as func computed it.
C7_EnsembleMSDIsMeanDisplacement ==
  pc = "Returned" =>
    /\ \A j \in 1..(walkLength - 1) : analysis[j - 1][0] = MeanDisplacement(j)
    /\ \A w \in 0..(nWalks - 1) : \A j \in 1..(walkLength - 1) :
         eaMSDall[w][j - 1] = Whole(TickDist(w, j, 0))

\* C6: after AnalyseWalks with nWalks >= 1 and walkLength >= 2, analysis has
\* walkLength - 1 rows and nWalks + 3 columns and every entry is finite; the
\* zero-length window TAMSD(walk, 1, 1) is 0 / 0 for every walk, raises
\* nothing and shows up as 0 in row 0 of the ensemble-time-average column.
C6_AnalysisIsFinite ==
  (pc = "Returned" /\ nWalks >= 1 /\ walkLength >= 2) =>
    /\ DOMAIN analysis = 0..(walkLength - 2)
    /\ \A r \in DOMAIN analysis :
         /\ DOMAIN analysis[r] = 0..(nWalks + 2)
         /\ \A c \in DOMAIN analysis[r] : IsFinite(analysis[r][c])
    /\ \A w \in 0..(nWalks - 1) : eataMSDall[w][0] = NaN
    /\ analysis[0][1] = Whole(0)
    /\ outcome = "running"

\* a finished analysis of two walks of three ticks whose columns are not
\* all zero
C6_Witness ==
  /\ pc = "Returned"
  /\ nWalks >= 2
  /\ walkLength >= 3
  /\ analysis[1][0] # Whole(0)
  /\ analysis[1][1] # Whole(0)
  /\ analysis[1][2] # Whole(0)
  /\ analysis[0][3] # analysis[0][4]

(***************************************************************************)
(* Properties of two calls.                                                *)
(***************************************************************************)
Finished == pc \in {"Returned", "Aborted"}

C5_EntropyRunsDiffer ==
  /\ runNo = 2
  /\ pc = "Returned"
  /\ randomSeed < 0
  /\ lattice # prev.results.lattice

(***************************************************************************)
(* Properties of the start of a walk.                                      *)
(***************************************************************************)
\* Percolate has returned
PercolateDone ==
  pc \in {"BuildLattice", "RandomWalks", "StartSearch", "WalkStep",
          "CtrwTimes", "Subordinate", "AddNoise", "AnalyseWalks",
          "AnalyseFunc", "Returned", "Aborted"}

\* no occupied site has an occupied nearest neighbour
NoOccupiedNeighbours ==
  \A s \in Occupied : \A k \in 1..neighbourCount : nn[s][k] \notin Occupied

\* the walk RandomWalks has just built is the stationary one
StationaryWalk ==
  /\ loc.countLoop = countMax
  /\ \A k \in 0..(simLength - 1) : walks[k] = loc.pos
  /\ \A k \in 0..(simLength - 1) : loc.boundaryDetect[k] = 0

\* every tick of the walks converted so far has the coordinates of tick 0
SameCoordinates ==
  \A w \in 0..(loc.i - 1) : \A t \in 0..(walkLength - 1) :
    walksCoords[w][t] = walksCoords[w][0]

\* C11: whenever the threshold is so low that no occupied site has an
\* occupied neighbour, RandomWalks raises nothing and, for every walk, the
\* start search reaches its cap and the walk is stationary: all simLength
\* visits are the last sampled site, every boundary flag is 0 and all
\* walkLength ticks have the same coordinates.
C11_SparseWalksAreStationary ==
  (nWalks >= 1 /\ PercolateDone /\ NoOccupiedNeighbours) =>
    /\ pc # "Aborted"
    /\ pc # "WalkStep"
    /\ pc \in {"CtrwTimes", "Subordinate"} => StationaryWalk
    /\ (pc = "StartSearch" /\ loc.i >= 1) => StationaryWalk
    /\ pc = "StartSearch" => SameCoordinates

\* the same with at least one site occupied
C11_StationaryFromNonEmptyPool ==
  Occupied # {} => C11_SparseWalksAreStationary

\* the sites of the cluster whose root is r
ClusterOf(r) == {s \in Occupied : RootOf(s) = r}

\* C12: in start-on-largest-cluster mode the start pool is exactly the set
\* of sites of one cluster of maximal size (every site whose root is that
\* cluster's root and no other site), whatever parent pointers Percolate
\* left; in start-anywhere mode it is exactly the set of occupied sites.
C12_StartPoolIsLargestCluster ==
  pc = "StartSearch" =>
    LET pool == Range(loc.latticeOnes) IN
    /\ Len(loc.latticeOnes) = Cardinality(pool)
    /\ walkMode # 1 => pool = Occupied
    /\ walkMode = 1 =>
         \E r \in {s \in Occupied : IsRoot(s)} :
           /\ pool = ClusterOf(r)
           /\ \A q \in {s \in Occupied : IsRoot(s)} :
                Cardinality(ClusterOf(q)) <= Cardinality(ClusterOf(r))

\* the same for the pool being the root of a largest cluster and the sites
\* that point at it directly
C12_StartPoolIsRootAndChildren ==
  pc = "StartSearch" =>
    LET pool == Range(loc.latticeOnes) IN
    /\ Len(loc.latticeOnes) = Cardinality(pool)
    /\ walkMode # 1 => pool = Occupied
    /\ walkMode = 1 =>
         \E r \in {s \in Occupied : IsRoot(s)} :
           /\ pool = {r} \cup {s \in Occupied : lattice[s] = r}
           /\ \A q \in {s \in Occupied : IsRoot(s)} :
                Cardinality(ClusterOf(q)) <= Cardinality(ClusterOf(r))

(***************************************************************************)
(* Properties of Run.                                                      *)
(***************************************************************************)
WalkStages ==
  {"RandomWalks", "StartSearch", "WalkStep", "CtrwTimes", "Subordinate",
   "AddNoise", "AnalyseWalks", "AnalyseFunc"}

\* C13: when nWalks = 0, Run executes only Permutation, Percolate and
\* BuildLattice: RandomWalks, AddNoise and AnalyseWalks are never entered
\* and walksCoords and analysis stay as Initialize sized them (no walk, and
\* walkLength - 1 unwritten rows of 3 columns).
C13_NoWalksSkipsWalkStages ==
  (nWalks = 0 /\ InitializeDone) =>
    /\ pc \notin WalkStages
    /\ DOMAIN walksCoords = {}
    /\ analysis = [r \in 0..(walkLength - 2) |-> Blank(3)]

\* a returned call without walkers whose lattice coordinates and tags are
\* written
C13_Witness ==
  /\ nWalks = 0
  /\ pc = "Returned"
  /\ gridSize >= 2
  /\ latticeCoords[N - 1] = <<gridSize - 1, gridSize - 1, SiteTag(N - 1)>>
  /\ unitCell[1] = gridSize
  /\ Occupied # {}

EventsUpTo(j) == Cardinality({m \in DOMAIN ctrwTimes : ctrwTimes[m] <= 4 * j})

\* C15: once a walk is subordinated, the site of every tick j in
\* [0, walkLength) is walks(k), k being the number of kept CTRW event times
\* that are <= j; with beta = 0 and tau0 = 1 this is trueWalks(j) = walks(j).
C15_TickHoldsLatestEvent ==
  (pc = "StartSearch" /\ loc.i >= 1) =>
    \A j \in 0..(walkLength - 1) : trueWalks[j] = walks[EventsUpTo(j)]

\* C16: when the cumulative CTRW times of a walk are complete, one of the
\* simLength entries is at or past walkLength, so that the truncation index
\* exists and lies in [0, simLength).
C16_TimesReachWalkLength ==
  pc = "Subordinate" =>
       /\ DOMAIN ctrwTimes = 0..(simLength - 1)
       /\ \E k \in 0..(simLength - 1) : ctrwTimes[k] >= 4 * walkLength

(***************************************************************************)
(* Properties of the lattice-step walk.                                    *)
(***************************************************************************)
\* the microsteps written so far by a walk that was not made stationary
StepsWalked ==
  IF pc = "WalkStep" THEN loc.j
  ELSE IF pc \in {"CtrwTimes", "Subordinate"} /\ loc.countLoop # countMax
       THEN simLength
       ELSE 0

\* C17: in a walk that did not fall back to the stationary trajectory, the
\* site a microstep is taken from has an occupied neighbour, every site
\* written is an occupied neighbour of the site before it, and every visited
\* site is occupied and in the cluster of the start site.
C17_WalkStaysOnCluster ==
  /\ (pc = "WalkStep" /\ loc.j < simLength) =>
       /\ loc.pos = walks[loc.j - 1]
       /\ \E k \in 1..neighbourCount : lattice[nn[loc.pos][k]] # EMPTY
  /\ \A k \in 1..(StepsWalked - 1) :
       /\ \E n \in 1..neighbourCount : nn[walks[k - 1]][n] = walks[k]
       /\ lattice[walks[k]] # EMPTY
  /\ \A k \in 0..(StepsWalked - 1) :
       /\ lattice[walks[k]] # EMPTY
       /\ RootOf(walks[k]) = RootOf(walks[0])

\* a finished walk of three microsteps or more over three sites or more, on
\* a lattice that has an empty site
C17_Witness ==
  /\ pc = "CtrwTimes"
  /\ loc.countLoop # countMax
  /\ simLength >= 3
  /\ Cardinality({walks[k] : k \in 0..(simLength - 1)}) >= 3
  /\ \E s \in 0..(N - 1) : lattice[s] = EMPTY

(***************************************************************************)
(* Properties of the start search.                                         *)
(***************************************************************************)
\* C18: during the start search of a walk the rejection counter never
\* exceeds countMax = min(max(N, 1e5), 1e8), the loop body has run at most
\* countMax + 1 times, and it does not run again after its pass number
\* countMax + 1.
C18_StartSearchIsCapped ==
  pc = "SearchLoop" =>
    /\ loc.countLoop <= countMax
    /\ loc.samples <= countMax + 1
    /\ loc.samples = countMax + 1 => loc.okStart

\* a search that used every pass: countMax rejections and one more sample
C18_Witness ==
  /\ pc = "SearchLoop"
  /\ loc.okStart
  /\ loc.countLoop = countMax
  /\ loc.samples = countMax + 1

(***************************************************************************)
(* Properties of BuildLattice.                                             *)
(***************************************************************************)
\* C19: BuildLattice writes the sites in the order of their index, each
\* once: count is the number of sites written and never passes N, in the
\* honeycomb mode the inner loop visits the rows gridSize - 1 down to 0 of a
\* column and then leaves it, and BuildLattice ends without an error.
C19_BuildLatticeWritesEachSiteOnce ==
  /\ pc = "BuildLattice" =>
       /\ loc.count <= N
       /\ latticeMode = 0 => loc.count = loc.i * gridSize + loc.j
       /\ (latticeMode = 1 /\ loc.count < N) =>
            /\ loc.j \in 0..(gridSize - 1)
            /\ loc.count = loc.i * gridSize + (gridSize - 1 - loc.j)
  /\ pc = "Aborted" => "count" \notin DOMAIN loc

\* the square branch alone
C19_SquareWritesEachSiteOnce ==
  latticeMode = 0 => C19_BuildLatticeWritesEachSiteOnce

(***************************************************************************)
(* Properties of the parallel analysis.                                    *)
(***************************************************************************)
\* the parallel map is over: no walk is pending and every worker is idle
MapIsOver ==
  /\ pc = "AnalyseFunc"
  /\ ParallelPending = {}
  /\ \A w \in 1..nJobs : loc.worker[w] = Idle

\* the three matrices after func(0), func(1), ... run one after the other
SequentialPass ==
  [eaMSDall |->
     [i \in 0..(nWalks - 1) |->
        [r \in 0..(walkLength - 2) |->
           Whole(SquaredDist(walksCoords[i][r + 1][1], walksCoords[i][0][1],
                             walksCoords[i][r + 1][2], walksCoords[i][0][2]))]],
   taMSD |->
     [i \in 0..(nWalks - 1) |->
        [r \in 0..(walkLength - 2) |->
           TAMSD(walksCoords[i], walkLength, r + 1)]],
   eataMSDall |->
     [i \in 0..(nWalks - 1) |->
        [r \in 0..(walkLength - 2) |-> TAMSD(walksCoords[i], r + 1, 1)]]]

\* the state part of C20
WorkersAreDisjoint ==
  pc = "AnalyseFunc" =>
    /\ \A i \in 0..(nWalks - 1) :
         /\ Cardinality(loc.by[i]) <= 1
         /\ i \in loc.done <=> loc.by[i] # {}
    /\ \A c \in Cells : Cardinality(loc.writers[c]) <= 1
    /\ MapIsOver =>
         /\ \A c \in Cells : Cardinality(loc.writers[c]) = 1
         /\ eaMSDall = SequentialPass.eaMSDall
         /\ taMSD = SequentialPass.taMSD
         /\ eataMSDall = SequentialPass.eataMSDall

\* C20: in the analysis stage, whatever the number of workers and the order
\* of their steps, each walk is handed to exactly one worker, no element of
\* eaMSDall, taMSD or eataMSDall is written by two workers, walksCoords is
\* not written, and when the map is over the three matrices are those of a
\* sequential pass over the walks.
C20_ParallelMapIsSequential ==
  /\ []WorkersAreDisjoint
  /\ [][pc = "AnalyseFunc" => walksCoords' = walksCoords]_vars

\* the map is over, two workers had a walk each, of three ticks, and a
\* walker moved
C20_Witness ==
  /\ MapIsOver
  /\ nJobs >= 2
  /\ walkLength >= 3
  /\ \E i, k \in 0..(nWalks - 1) : loc.by[i] = {1} /\ loc.by[k] = {2}
  /\ \E i \in 0..(nWalks - 1) : eaMSDall[i][1] # Whole(0)

(***************************************************************************)
(* Properties of the union step.                                           *)
(***************************************************************************)
\* the unions the loop over the neighbours of s1 makes from neighbour j on,
\* in order: the two roots, the lattice before and the lattice after
RECURSIVE UnionSteps(_, _, _)
UnionSteps(st, s1, j) ==
  IF j >= neighbourCount THEN <<>>
  ELSE
    LET s2 == nn[s1][j + 1] IN
    IF st.lat[s2] # EMPTY THEN
      LET found == FindRoot(st.lat, s2) IN
      IF found.root # st.r1 THEN
        LET u == Union(found.lat, st.r1, found.root) IN
        <<[r1 |-> st.r1, r2 |-> found.root, before |-> found.lat,
           after |-> u.lat]>>
          \o UnionSteps([lat |-> u.lat, r1 |-> u.r1], s1, j + 1)
      ELSE UnionSteps([st EXCEPT !.lat = found.lat], s1, j + 1)
    ELSE UnionSteps(st, s1, j + 1)

\* the unions of the iteration of Percolate that is about to run
UnionsOfSite ==
  LET s1 == occupation[loc.i]
  IN UnionSteps([lat |-> [lattice EXCEPT ![s1] = -1], r1 |-> s1], s1, 0)

\* a union of two clusters of equal size
IsTie(u) == u.before[u.r1] = u.before[u.r2]

\* after union u, root is a root holding the summed size and child points
\* to it
Attached(u, root, child) ==
  /\ u.after[root] = u.before[u.r1] + u.before[u.r2]
  /\ u.after[root] < 0
  /\ u.after[child] = root

\* an iteration of the second loop of Percolate is about to occupy a site
OccupyingSite ==
  pc = "PercolateSite" /\ PercolateContinues(loc.i) /\ loc.i < N

\* the lattice the iteration leaves holds what its last union wrote at the
\* two roots
LastUnionStands ==
  LET us == UnionsOfSite IN
  us # <<>> =>
    LET u == us[Len(us)] IN
    /\ lattice'[u.r1] = u.after[u.r1]
    /\ lattice'[u.r2] = u.after[u.r2]

\* C21 as stated: in every union of Percolate between two clusters of equal
\* size, the first root r1 (that of the newly occupied site) is attached
\* beneath the second: r2 stays a root holding the summed size and r1
\* becomes its child.
C21_TieFirstUnderSecond ==
  [][OccupyingSite =>
       /\ \A k \in 1..Len(UnionsOfSite) :
            IsTie(UnionsOfSite[k]) =>
              Attached(UnionsOfSite[k], UnionsOfSite[k].r2, UnionsOfSite[k].r1)
       /\ LastUnionStands]_vars

\* C21 amended: in every union of Percolate between two clusters of equal
\* size, the second root r2 (that of the neighbour) is attached beneath the
\* first: r1 stays a root holding the summed size and r2 becomes its child.
C21_TieSecondUnderFirst ==
  [][OccupyingSite =>
       /\ \A k \in 1..Len(UnionsOfSite) :
            IsTie(UnionsOfSite[k]) =>
              Attached(UnionsOfSite[k], UnionsOfSite[k].r1, UnionsOfSite[k].r2)
       /\ LastUnionStands]_vars

\* the second site occupied was a neighbour of the first, both clusters of
\* one site: the second site is the root of the pair and the first its child
C21_Witness ==
  /\ pc = "PercolateSite"
  /\ loc.i = 2
  /\ N >= 9
  /\ lattice[occupation[1]] = -2
  /\ lattice[occupation[0]] = occupation[1]

(***************************************************************************)
(* Properties of the site tags.                                            *)
(***************************************************************************)
\* the sites BuildLattice has written so far
SitesWritten ==
  IF pc = "BuildLattice" THEN 0..(Min2(loc.count, N) - 1)
  ELSE IF pc = "RandomWalks" THEN 0..(N - 1)
  ELSE {}

\* C22: the tag BuildLattice writes in the third row of latticeCoords is 0
\* for a site if and only if the site is EMPTY: every occupied site,
\* whatever its parent pointer, has a tag that is not 0.
C22_TagZeroIffEmpty ==
  \A s \in SitesWritten : (latticeCoords[s][3] = 0) <=> (lattice[s] = EMPTY)

\* the tags of the empty sites and of the roots alone
C22_EmptyAndRootTags ==
  \A s \in SitesWritten :
    /\ lattice[s] = EMPTY => latticeCoords[s][3] = 0
    /\ lattice[s] < 0 /\ lattice[s] # EMPTY => latticeCoords[s][3] < 0

(***************************************************************************)
(* Properties of the stationary fallback.                                  *)
(***************************************************************************)
\* the walk under way was made stationary by the branch on countLoop ==
\* countMax
FellBack ==
  /\ pc = "CtrwTimes"
  /\ loc.j = 0
  /\ loc.countLoop = countMax
  /\ \A k \in 0..(simLength - 1) : walks[k] = loc.pos

\* C23: a walk is replaced by the stationary fallback only if the start
\* site the search ended on has no occupied neighbour; a search that ends
\* on a site with an occupied neighbour, whatever its rejection counter,
\* is followed by the neighbour steps from that site.
C23_FallbackOnlyWithoutNeighbours ==
  /\ FellBack => \A k \in 1..neighbourCount : lattice[nn[loc.pos][k]] = EMPTY
  /\ (pc = "WalkStep" /\ loc.j = 1) =>
       \E k \in 1..neighbourCount : lattice[nn[loc.pos][k]] # EMPTY

=============================================================================
